---- MODULE Spec2Model ----
(***************************************************************************)
(* ASCII post-processing pipeline of shader-3d-solids.                     *)
(*                                                                         *)
(*  - ShaderSpec: the composite pass's fragment shader, in its two         *)
(*    backends (GLSL in src/src/ascii-shader.ts, WGSL in                   *)
(*    src/unnamed/part_000), as a function of one pixel's inputs.          *)
(*  - Spec: the two entry points (src/src/main.ts and the head of          *)
(*    src/unnamed/part_002) driving a renderer through initialize, the     *)
(*    frame callback and the window's resize event.                        *)
(*                                                                         *)
(* Shader floats are modelled as exact fractions on a grid: a colour       *)
(* channel is k / Levels, the luma weights are thousandths.                *)
(***************************************************************************)
EXTENDS Integers, Sequences, FiniteSets, TLC

VARIABLES
    frag,      \* the fragment shader invocation: its inputs and outputs
    env,       \* the browser: container size, device pixel ratio, contexts
    page,      \* the entry point script: position, listeners, fallback
    three,     \* the fields of the ThreeRenderer instance
    tgpu,      \* the TypeGpuRenderer instance, as far as the entry point sees it
    hist       \* what the last renderer calls were and what they drew

vars == <<frag, env, page, three, tgpu, hist>>

(***************************************************************************)
(* Bounds of the model.                                                    *)
(***************************************************************************)
\* a colour channel of the scene sample takes the values 0/Levels .. Levels/Levels
Levels == 4
\* the scene sample's alpha takes the values 0/AlphaMax .. AlphaMax/AlphaMax
AlphaMax == 2
\* the font atlas sample's red channel takes the values 0/InkMax .. InkMax/InkMax
InkMax == 2
\* ramp lengths (uCharCount) tried: 1 .. MaxCharCount
MaxCharCount == 9

(***************************************************************************)
(* The character ramp and the luma weights.                                *)
(***************************************************************************)
CHAR_SET_reversed == <<"@", "#", "%", "*", "+", "=", "-", ":", ".">>

CHAR_SET == <<".", ":", "-", "=", "+", "*", "%", "#", "@">>

\* vec3(0.299, 0.587, 0.114), in thousandths
LumaR == 299
LumaG == 587
LumaB == 114
LumaScale == 1000

Backends == {"glsl", "wgsl"}

Channel == 0 .. Levels

(***************************************************************************)
(* The cell coordinates are f32 values, kept as integers in units of       *)
(* 2^-24, the spacing of the f32 values of [1/2, 1): every sum the shader  *)
(* forms of a ramp index and a fraction is rounded to 24 significant bits  *)
(* as f32 addition rounds it.  The quotient by uCharCount is kept exact.   *)
(***************************************************************************)
\* the significant bits of an f32
F32Precision == 24

\* 1.0, in units of 2^-24
One == 2 ^ F32Precision

\* the product vUv * gridDims of one axis lies below MaxCell + 1
MaxCell == 1
\* the fractions tried lie within MaxUlps spacings of a cell's two edges
MaxUlps == 2

RECURSIVE Ulp(_)
\* the spacing of the f32 values around v >= 0, in units of 2^-24
Ulp(v) == IF v < One THEN 1 ELSE 2 * Ulp(v \div 2)

\* v >= 0 rounded to the nearest f32, ties to the even significand
RoundF32(v) ==
    LET u == Ulp(v)
        q == v \div u
        r == v % u
    IN  IF 2 * r < u THEN q * u
        ELSE IF 2 * r > u THEN (q + 1) * u
        ELSE IF q % 2 = 0 THEN q * u ELSE (q + 1) * u

\* floor(x) and fract(x) = x - floor(x) of an f32 x >= 0: both exact
Floor(v) == (v \div One) * One

Fract(v) == v - Floor(v)

\* the f32 values of [c, c + 1) tried for vUv * gridDims: the cell's left edge
\* and its middle, and the values next to its two edges
CellValues(c) ==
    LET u == Ulp(c * One)
    IN  {c * One + j * u : j \in 0 .. MaxUlps}
            \cup {(c + 1) * One - j * u : j \in 1 .. MaxUlps}
            \cup {c * One + One \div 2}

GridValues == UNION {CellValues(c) : c \in 0 .. MaxCell}

\* the middle of the first cell
CellCentre == One \div 2

\* the inputs of one invocation: the uniform uCharCount, the scene sample taken
\* at cellUv (r, g, b over Levels, a over AlphaMax), the red channel of the
\* font atlas sample (over InkMax) and the two components of vUv * gridDims
\* (px, py, in units of 2^-24), here those of the middle of the first cell
FragInputs ==
    [uCharCount : 1 .. MaxCharCount,
     r : Channel, g : Channel, b : Channel,
     a : 0 .. AlphaMax,
     ink : 0 .. InkMax,
     px : {CellCentre}, py : {CellCentre}]

\* the inputs of the invocations that cover the cells' edges: grey scene
\* samples of full alpha under every cell coordinate of GridValues
AtlasInputs ==
    {[uCharCount |-> n, r |-> c, g |-> c, b |-> c, a |-> AlphaMax, ink |-> InkMax,
      px |-> x, py |-> y] :
        n \in 1 .. MaxCharCount, c \in Channel, x \in GridValues, y \in GridValues}

\* dot(sceneColor.rgb, vec3(0.299, 0.587, 0.114)), over LumaScale * Levels
Dot(in) == LumaR * in.r + LumaG * in.g + LumaB * in.b

\* the denominator of Dot and of the luminance
LumaDen == LumaScale * Levels

NotInvertedLuminance(in) == Dot(in)

\* float luminance = 1.0 - dot(sceneColor.rgb, vec3(...)), over LumaDen
GlslLuminance(in) == LumaDen - Dot(in)

\* let luminance = 1.0 - dot(sceneColor.rgb, vec3f(...)), over LumaDen
WgslLuminance(in) == LumaDen - Dot(in)

GlslCharIndexNoMinusOne(in) == (GlslLuminance(in) * in.uCharCount) \div LumaDen

\* float charIndex = floor(luminance * (uCharCount - 1.0))
GlslCharIndex(in) == (GlslLuminance(in) * (in.uCharCount - 1)) \div LumaDen

\* let charIndex = floor(luminance * (params.uCharCount - 1.0))
WgslCharIndex(in) == (WgslLuminance(in) * (in.uCharCount - 1)) \div LumaDen

GlslAlphaInkOnly(in) == in.ink * AlphaMax

\* gl_FragColor.a = fontColor.r * sceneColor.a, over InkMax * AlphaMax
GlslAlpha(in) == in.ink * in.a

\* the returned alpha sceneColor.a * fontColor.r, over InkMax * AlphaMax
WgslAlpha(in) == in.a * in.ink

\* charIndex + uvInCell.x of float fontU = (charIndex + uvInCell.x) / uCharCount,
\* uvInCell = fract(vUv * gridDims); fontU is GlslFontSum / (uCharCount * One)
GlslFontSum(in) == RoundF32(GlslCharIndex(in) * One + Fract(in.px))

\* float fontV = uvInCell.y, over One
GlslFontV(in) == Fract(in.py)

\* charIndex + uvInCell.x of let fontU = (charIndex + uvInCell.x) / params.uCharCount,
\* uvInCell = fract(uv * gridDims); fontU is WgslFontSum / (uCharCount * One)
WgslFontSum(in) == RoundF32(WgslCharIndex(in) * One + Fract(in.px))

\* let fontV = uvInCell.y, over One
WgslFontV(in) == Fract(in.py)

\* gl_FragColor = vec4(uColor, fontColor.r * sceneColor.a), uColor = #ffffff;
\* rgb over Levels * InkMax
AsciiShaderFragment(in) ==
    [luminance |-> GlslLuminance(in),
     charIndex |-> GlslCharIndex(in),
     fontSum   |-> GlslFontSum(in),
     fontV     |-> GlslFontV(in),
     rgb       |-> <<Levels * InkMax, Levels * InkMax, Levels * InkMax>>,
     alpha     |-> GlslAlpha(in)]

\* return vec4f(sceneColor.rgb * fontColor.r, sceneColor.a * fontColor.r)
asciiFragmentShader(in) ==
    [luminance |-> WgslLuminance(in),
     charIndex |-> WgslCharIndex(in),
     fontSum   |-> WgslFontSum(in),
     fontV     |-> WgslFontV(in),
     rgb       |-> <<in.r * in.ink, in.g * in.ink, in.b * in.ink>>,
     alpha     |-> WgslAlpha(in)]

FragmentOf(backend, in) ==
    IF backend = "glsl" THEN AsciiShaderFragment(in) ELSE asciiFragmentShader(in)

NoOutput ==
    [luminance |-> 0, charIndex |-> 0, fontSum |-> 0, fontV |-> 0,
     rgb |-> <<0, 0, 0>>, alpha |-> 0]

\* a pixel waiting for its fragment shader invocation
FragInit ==
    frag \in [backend : Backends, in : FragInputs, done : {FALSE}, out : {NoOutput}]

\* the GLSL fragment shader's main() runs for the pixel
GlslMain ==
    /\ frag.backend = "glsl"
    /\ ~frag.done
    /\ frag' = [frag EXCEPT !.done = TRUE, !.out = AsciiShaderFragment(frag.in)]
    /\ UNCHANGED <<env, page, three, tgpu, hist>>

\* the WGSL fragment shader's main() runs for the pixel
WgslMain ==
    /\ frag.backend = "wgsl"
    /\ ~frag.done
    /\ frag' = [frag EXCEPT !.done = TRUE, !.out = asciiFragmentShader(frag.in)]
    /\ UNCHANGED <<env, page, three, tgpu, hist>>

(***************************************************************************)
(* The browser and the renderer instance.                                  *)
(***************************************************************************)
\* container.clientWidth and clientHeight range over 0 .. MaxDim
MaxDim == 2
\* window.devicePixelRatio ranges over 1 .. MaxDpr
MaxDpr == 2
\* uFontSize: { value: 10.0 }, and 10.0 * window.devicePixelRatio
FontSizeBase == 10

Dims == 0 .. MaxDim

\* the value of the JavaScript division width / height
Aspect(w, h) ==
    IF h = 0
    THEN [kind |-> IF w = 0 THEN "NaN" ELSE IF w > 0 THEN "Infinity" ELSE "-Infinity",
          num |-> 0, den |-> 0]
    ELSE [kind |-> "finite", num |-> w, den |-> h]

\* the GPU resources initialize(container) acquires: the WebGLRenderer, the
\* texture of '/mona.jpg', the MeshBasicMaterial, the BoxGeometry, the
\* WebGLRenderTarget, the font atlas texture, the ShaderMaterial and the
\* PlaneGeometry of the quad
ResourceKinds ==
    {"renderer", "mapTexture", "material", "geometry",
     "renderTarget", "fontTexture", "postMaterial", "quadGeometry"}

\* the fields of a ThreeRenderer after construction: every reference null;
\* live counts the resources acquired and not disposed, disposed names the
\* fields whose present object has been disposed
ThreeFields ==
    [nonNull     |-> {},
     aspect      |-> Aspect(1, 1),
     size        |-> <<0, 0>>,
     pixelRatio  |-> 1,
     boundTarget |-> "screen",
     targetSize  |-> <<0, 0>>,
     uResolution |-> <<0, 0>>,
     uFontSize   |-> 0,
     uCharCount  |-> 0,
     listeners   |-> {},
     live        |-> [k \in ResourceKinds |-> 0],
     disposed    |-> {}]

NoCall == [op |-> "none", w |-> 0, h |-> 0, dpr |-> 0]

HistInit ==
    [targetsAllocated |-> 0,
     dprAtInit        |-> 0,
     lastCall         |-> NoCall,
     repeated         |-> FALSE,
     frameLog         |-> <<>>,
     initCalls        |-> 0]

\* createAsciiTexture(): throws when the canvas gives no 2D context
createAsciiTextureThrows(e) == ~e.ctx2d

\* setupInteraction(): the four listeners, unless there is no container
setupInteraction(t) ==
    IF "container" \notin t.nonNull THEN t
    ELSE [t EXCEPT !.listeners = @ \cup {"mousedown", "mousemove", "mouseup", "keydown"}]

\* the constructors and loaders of initialize(container): one new object of
\* each of the kinds
Acquire(t, kinds) ==
    [t EXCEPT !.live = [k \in ResourceKinds |-> IF k \in kinds THEN @[k] + 1 ELSE @[k]],
              !.disposed = @ \ kinds]

\* initialize(container), up to new THREE.WebGLRenderer, which throws when the
\* browser gives no WebGL context
InitSceneAndCamera(t) ==
    [t EXCEPT !.nonNull = @ \cup {"container", "scene", "camera"},
              !.aspect = Aspect(1, 1)]

\* initialize(container), from the WebGLRenderer to the post-processing scene
InitRendererAndTarget(t, e) ==
    [Acquire(t, {"renderer", "mapTexture", "material", "geometry", "renderTarget"})
        EXCEPT !.nonNull = @ \cup {"renderer", "material", "geometry", "cube",
                                   "renderTarget", "postCamera", "postScene"},
               !.size = e.client,
               !.pixelRatio = e.dpr,
               !.boundTarget = "screen",
               !.targetSize = <<e.client[1] * e.dpr, e.client[2] * e.dpr>>]

\* initialize(container), the post-processing material and its uniforms
InitPostMaterial(t, e) ==
    [Acquire(t, {"fontTexture", "postMaterial", "quadGeometry"})
        EXCEPT !.nonNull = @ \cup {"postMaterial"},
               !.uCharCount = Len(CHAR_SET),
               !.uResolution = <<e.client[1] * e.dpr, e.client[2] * e.dpr>>,
               !.uFontSize = FontSizeBase * e.dpr]

\* ThreeRenderer.initialize(container): the fields and the history afterwards,
\* and whether it threw
ThreeInitialize(t, h, e) ==
    LET t1 == InitSceneAndCamera(t)
        t2 == InitRendererAndTarget(t1, e)
        h2 == [h EXCEPT !.targetsAllocated = @ + 1]
        t3 == setupInteraction(InitPostMaterial(t2, e))
        called == [op |-> "initialize", w |-> e.client[1], h |-> e.client[2], dpr |-> e.dpr]
    IN  IF ~e.gpu
        THEN [three |-> t1,
              hist  |-> [h EXCEPT !.lastCall = called, !.repeated = FALSE],
              threw |-> TRUE]
        ELSE IF createAsciiTextureThrows(e)
        THEN [three |-> t2,
              hist  |-> [h2 EXCEPT !.lastCall = called, !.repeated = FALSE],
              threw |-> TRUE]
        ELSE [three |-> t3,
              hist  |-> [h2 EXCEPT !.dprAtInit = e.dpr, !.lastCall = called,
                                   !.repeated = FALSE],
              threw |-> FALSE]

ResizeGuard(t) == {"renderer", "camera", "renderTarget", "postMaterial"} \subseteq t.nonNull

ResizeFields_TargetOnly(t, w, h, dpr) ==
    [t EXCEPT !.aspect = Aspect(w, h),
              !.size = <<w, h>>,
              !.targetSize = <<w * dpr, h * dpr>>]

ResizeFields_FontSize(t, w, h, dpr) ==
    [t EXCEPT !.aspect = Aspect(w, h),
              !.size = <<w, h>>,
              !.targetSize = <<w * dpr, h * dpr>>,
              !.uResolution = <<w * dpr, h * dpr>>,
              !.uFontSize = FontSizeBase * dpr]

\* the assignments of resize(width, height) past its guard
ResizeFields(t, w, h, dpr) ==
    [t EXCEPT !.aspect = Aspect(w, h),
              !.size = <<w, h>>,
              !.targetSize = <<w * dpr, h * dpr>>,
              !.uResolution = <<w * dpr, h * dpr>>]

ResizeAllocs_NewTarget(n) == n + 1

\* render targets constructed by resize(width, height): none, setSize resizes
\* the one initialize made
ResizeAllocs(n) == n

\* ThreeRenderer.resize(width, height) with window.devicePixelRatio = dpr
ThreeResize(t, h, w, ht, dpr) ==
    LET called == [op |-> "resize", w |-> w, h |-> ht, dpr |-> dpr]
    IN  IF ~ResizeGuard(t)
        THEN [three |-> t, hist |-> h]
        ELSE [three |-> ResizeFields(t, w, ht, dpr),
              hist  |-> [h EXCEPT !.targetsAllocated = ResizeAllocs(@),
                                  !.lastCall = called,
                                  !.repeated = (h.lastCall = called)]]

RenderGuard(t) ==
    {"renderer", "scene", "camera", "cube", "renderTarget", "postScene", "postCamera"}
        \subseteq t.nonNull

\* this.renderer.setRenderTarget(target); s = [t: the fields, log: the draws]
SetRenderTarget(s, target) == [s EXCEPT !.t.boundTarget = target]

\* this.renderer.render(scene, camera): one draw into the bound target, reading
\* the scene buffer and the uniforms as they are now
RendererRender(s, sceneName) ==
    [s EXCEPT !.log = Append(@, [scene       |-> sceneName,
                                 target      |-> s.t.boundTarget,
                                 bufferSize  |-> s.t.targetSize,
                                 uResolution |-> s.t.uResolution])]

ScenePass(s) == RendererRender(SetRenderTarget(s, "renderTarget"), "scene")

CompositePass(s) == RendererRender(SetRenderTarget(s, "screen"), "postScene")

RenderPasses_CompositeFirst(s) == ScenePass(CompositePass(s))

\* the two passes of render(), in the order of the code
RenderPasses(s) == CompositePass(ScenePass(s))

\* ThreeRenderer.render()
ThreeRender(t, h) ==
    LET s == RenderPasses([t |-> t, log |-> <<>>])
    IN  IF ~RenderGuard(t)
        THEN [three |-> t, hist |-> h]
        ELSE [three |-> s.t,
              hist  |-> [h EXCEPT !.frameLog = s.log,
                                  !.lastCall = [NoCall EXCEPT !.op = "render"],
                                  !.repeated = FALSE]]

\* object?.dispose() on the fields named: each present object not yet disposed
\* is released
Dispose(t, fields) ==
    LET hit == {k \in fields : k \in t.nonNull /\ k \notin t.disposed}
    IN  [t EXCEPT !.live = [k \in ResourceKinds |-> IF k \in hit THEN @[k] - 1 ELSE @[k]],
                  !.disposed = @ \cup hit]

\* the removeEventListener calls of destroy(): the container's two when there
\* is a container, the window's two always
RemoveListeners(t) ==
    [t EXCEPT !.listeners =
        (IF "container" \in t.nonNull THEN @ \ {"mousedown", "mousemove"} ELSE @)
            \ {"mouseup", "keydown"}]

\* ThreeRenderer.destroy(): the listeners are removed, then geometry, material
\* and renderer are disposed
ThreeDestroy(t, h) ==
    [three |-> Dispose(RemoveListeners(t), {"geometry", "material", "renderer"}),
     hist  |-> [h EXCEPT !.lastCall = [NoCall EXCEPT !.op = "destroy"],
                         !.repeated = FALSE]]

(***************************************************************************)
(* The TypeGpuRenderer, whose class is not among the sources: only its     *)
(* entry point is.  Modelled from the specification's sections 4.4 and 7.  *)
(***************************************************************************)
TgpuFields == [status |-> "new", resolution |-> <<0, 0>>, drawn |-> FALSE]

\* initialize(container) settles: it rejects when the graphics backend or the
\* font atlas surface is unavailable
TgpuInitialize(g, e) ==
    IF e.gpu /\ e.ctx2d
    THEN [g EXCEPT !.status = "ready",
                   !.resolution = <<e.client[1] * e.dpr, e.client[2] * e.dpr>>]
    ELSE [g EXCEPT !.status = "failed"]

\* resize(width, height): resolution = (width, height) * devicePixelRatio
TgpuResize(g, w, h, dpr) ==
    IF g.status = "ready" THEN [g EXCEPT !.resolution = <<w * dpr, h * dpr>>] ELSE g

\* render(): one frame
TgpuRender(g) ==
    IF g.status = "ready" THEN [g EXCEPT !.drawn = TRUE] ELSE g

(***************************************************************************)
(* The entry points.                                                       *)
(***************************************************************************)
Entries == {"three", "typegpu"}

EnvInit ==
    env \in [app : BOOLEAN, ctx2d : BOOLEAN, gpu : BOOLEAN,
             client : Dims \X Dims, dpr : 1 .. MaxDpr]

PageInit ==
    page \in [entry : Entries, pc : {"load"}, resizeListener : {FALSE},
              rafScheduled : {FALSE}, fallbackShown : {FALSE},
              initFailed : {FALSE}, renderCalled : {FALSE}]

RendererInit ==
    /\ EnvInit
    /\ PageInit
    /\ three = ThreeFields
    /\ tgpu = TgpuFields
    /\ hist = HistInit

FragIdle ==
    frag = [backend |-> "glsl",
            in |-> [uCharCount |-> Len(CHAR_SET), r |-> 0, g |-> 0, b |-> 0,
                    a |-> 0, ink |-> 0, px |-> CellCentre, py |-> CellCentre],
            done |-> TRUE,
            out |-> NoOutput]

Init == RendererInit /\ FragIdle

\* src/main.ts past renderer.initialize(app): an exception of initialize leaves
\* the module uncaught; otherwise the listener is added and animate() runs once
MainThreePage(p, threw) ==
    IF threw
    THEN [p EXCEPT !.pc = "crashed", !.initFailed = TRUE]
    ELSE [p EXCEPT !.pc = "running", !.resizeListener = TRUE, !.rafScheduled = TRUE,
                   !.renderCalled = TRUE]

\* src/main.ts, the module body
MainThree ==
    /\ page.entry = "three"
    /\ page.pc = "load"
    /\ IF ~env.app
       THEN /\ page' = [page EXCEPT !.pc = "noApp"]
            /\ UNCHANGED <<three, hist>>
       ELSE LET i == ThreeInitialize(three, hist, env)
                f == ThreeRender(i.three, i.hist)
            IN  /\ page' = MainThreePage(page, i.threw)
                /\ three' = IF i.threw THEN i.three ELSE f.three
                /\ hist' = IF i.threw THEN i.hist ELSE f.hist
    /\ UNCHANGED <<frag, env, tgpu>>

\* src/main.ts, animate: the frame callback
AnimateThree ==
    /\ page.entry = "three"
    /\ page.rafScheduled
    /\ LET f == ThreeRender(three, hist)
       IN  /\ three' = f.three
           /\ hist' = f.hist
    /\ page' = [page EXCEPT !.rafScheduled = TRUE, !.renderCalled = TRUE]
    /\ UNCHANGED <<frag, env, tgpu>>

\* src/main.ts, the window's resize listener
OnResizeThree ==
    /\ page.entry = "three"
    /\ page.resizeListener
    /\ LET z == ThreeResize(three, hist, env.client[1], env.client[2], env.dpr)
       IN  /\ three' = z.three
           /\ hist' = z.hist
    /\ UNCHANGED <<frag, env, page, tgpu>>

\* the TypeGPU entry point, start() up to await renderer.initialize(app)
MainTypeGpu ==
    /\ page.entry = "typegpu"
    /\ page.pc = "load"
    /\ page' = [page EXCEPT !.pc = IF env.app THEN "awaitInit" ELSE "noApp"]
    /\ tgpu' = IF env.app THEN [tgpu EXCEPT !.status = "pending"] ELSE tgpu
    /\ UNCHANGED <<frag, env, three, hist>>

\* the TypeGPU entry point, start() past the await: the try block's rest when
\* initialize resolved, the catch block when it rejected
StartSettled(p, ok) ==
    IF ok
    THEN [p EXCEPT !.pc = "running", !.resizeListener = TRUE, !.rafScheduled = TRUE,
                   !.renderCalled = TRUE]
    ELSE [p EXCEPT !.pc = "fallback", !.initFailed = TRUE, !.fallbackShown = TRUE]

\* the promise of renderer.initialize(app) settles and start() resumes
TypeGpuInitSettled ==
    /\ page.entry = "typegpu"
    /\ page.pc = "awaitInit"
    /\ LET g == TgpuInitialize(tgpu, env)
           ok == g.status = "ready"
       IN  /\ page' = StartSettled(page, ok)
           /\ tgpu' = IF ok THEN TgpuRender(g) ELSE g
    /\ UNCHANGED <<frag, env, three, hist>>

\* the TypeGPU entry point, animate: the frame callback
AnimateTypeGpu ==
    /\ page.entry = "typegpu"
    /\ page.rafScheduled
    /\ tgpu' = TgpuRender(tgpu)
    /\ page' = [page EXCEPT !.rafScheduled = TRUE, !.renderCalled = TRUE]
    /\ UNCHANGED <<frag, env, three, hist>>

\* the TypeGPU entry point, the window's resize listener
OnResizeTypeGpu ==
    /\ page.entry = "typegpu"
    /\ page.resizeListener
    /\ tgpu' = TgpuResize(tgpu, env.client[1], env.client[2], env.dpr)
    /\ UNCHANGED <<frag, env, page, three, hist>>

\* the browser lays the container out at another size
LayoutChange ==
    /\ \E c \in Dims \X Dims :
          /\ c # env.client
          /\ env' = [env EXCEPT !.client = c]
    /\ UNCHANGED <<frag, page, three, tgpu, hist>>

\* the window moves to a display of another pixel ratio, or the page is zoomed
DprChange ==
    /\ \E d \in 1 .. MaxDpr :
          /\ d # env.dpr
          /\ env' = [env EXCEPT !.dpr = d]
    /\ UNCHANGED <<frag, page, three, tgpu, hist>>

Next ==
    \/ MainThree
    \/ AnimateThree
    \/ OnResizeThree
    \/ MainTypeGpu
    \/ TypeGpuInitSettled
    \/ AnimateTypeGpu
    \/ OnResizeTypeGpu
    \/ LayoutChange
    \/ DprChange

Spec == Init /\ [][Next]_vars

\* the renderer left unconstructed while single pixels are shaded
RendererIdle ==
    /\ env = [app |-> FALSE, ctx2d |-> FALSE, gpu |-> FALSE, client |-> <<0, 0>>,
              dpr |-> 1]
    /\ page = [entry |-> "three", pc |-> "load", resizeListener |-> FALSE,
               rafScheduled |-> FALSE, fallbackShown |-> FALSE,
               initFailed |-> FALSE, renderCalled |-> FALSE]
    /\ three = ThreeFields
    /\ tgpu = TgpuFields
    /\ hist = HistInit

ShaderInit == FragInit /\ RendererIdle

ShaderNext == GlslMain \/ WgslMain

ShaderSpec == ShaderInit /\ [][ShaderNext]_vars

\* a pixel at or next to a cell's edge waiting for its invocation
AtlasInit ==
    /\ frag \in [backend : Backends, in : AtlasInputs, done : {FALSE}, out : {NoOutput}]
    /\ RendererIdle

AtlasSpec == AtlasInit /\ [][ShaderNext]_vars

(***************************************************************************)
(* A host that owns a ThreeRenderer through the CubeRenderer interface and *)
(* cycles it through initialize and destroy.                               *)
(***************************************************************************)
\* initialize(container) is called at most MaxCycles times
MaxCycles == 2

HostPage ==
    [entry |-> "three", pc |-> "load", resizeListener |-> FALSE,
     rafScheduled |-> FALSE, fallbackShown |-> FALSE,
     initFailed |-> FALSE, renderCalled |-> FALSE]

LifecycleInit ==
    /\ EnvInit
    /\ page = HostPage
    /\ three = ThreeFields
    /\ tgpu = TgpuFields
    /\ hist = HistInit
    /\ FragIdle

\* the host calls renderer.initialize(container)
HostInitialize ==
    /\ hist.initCalls < MaxCycles
    /\ LET i == ThreeInitialize(three, hist, env)
       IN  /\ three' = i.three
           /\ hist' = [i.hist EXCEPT !.initCalls = @ + 1]
    /\ UNCHANGED <<frag, env, page, tgpu>>

\* the host calls renderer.destroy()
HostDestroy ==
    /\ LET d == ThreeDestroy(three, hist)
       IN  /\ three' = d.three
           /\ hist' = d.hist
    /\ UNCHANGED <<frag, env, page, tgpu>>

LifecycleNext ==
    \/ HostInitialize
    \/ HostDestroy
    \/ LayoutChange
    \/ DprChange

LifecycleSpec == LifecycleInit /\ [][LifecycleNext]_vars

(***************************************************************************)
(* Properties of the fragment shader (ShaderSpec).                         *)
(***************************************************************************)
\* the scene samples of the grid, with the other inputs of the invocation kept
OtherSamples ==
    {[frag.in EXCEPT !.r = c[1], !.g = c[2], !.b = c[3]] :
        c \in Channel \X Channel \X Channel}

\* C1: for every ramp length N >= 1 and every scene sample with r, g, b in
\* [0,1], the charIndex either backend computes is an integer in [0, N-1].
C1_CharIndexInRange ==
    frag.done => frag.out.charIndex \in 0 .. (frag.in.uCharCount - 1)

\* the WGSL shader has selected the last entry of a ramp of two or more glyphs
C1_Witness ==
    /\ frag.done
    /\ frag.backend = "wgsl"
    /\ frag.in.uCharCount >= 2
    /\ frag.out.charIndex = frag.in.uCharCount - 1

C4_NoCoverageTransparent ==
    (frag.done /\ frag.in.a = 0) => frag.out.alpha = 0

\* the GLSL shader has shaded a white sample of alpha 0 under full glyph ink
C4_Witness ==
    /\ frag.done
    /\ frag.backend = "glsl"
    /\ frag.in.a = 0
    /\ frag.in.ink = InkMax
    /\ frag.in.r = Levels /\ frag.in.g = Levels /\ frag.in.b = Levels

(***************************************************************************)
(* Properties of the renderer and its entry points (Spec).                 *)
(***************************************************************************)
ThisResize ==
    [op |-> "resize", w |-> env.client[1], h |-> env.client[2], dpr |-> env.dpr]

\* C5: resize is idempotent: a resize(w, h) that directly follows a
\* resize(w, h) with the same arguments and device pixel ratio leaves the
\* resolution parameter, the scene buffer size and the number of scene
\* buffers allocated as they were.
C5_ResizeIdempotent ==
    [][(OnResizeThree /\ hist.lastCall = ThisResize) =>
          /\ three'.uResolution = three.uResolution
          /\ three'.targetSize = three.targetSize
          /\ hist'.targetsAllocated = hist.targetsAllocated]_vars

\* resize has been called twice in a row with the same non-degenerate size
C5_Witness ==
    /\ hist.repeated
    /\ hist.lastCall.op = "resize"
    /\ hist.lastCall.w > 0 /\ hist.lastCall.h > 0
    /\ hist.targetsAllocated = 1

\* C6: under any interleaving of resize events and frame callbacks, the scene
\* buffer size equals uResolution whenever a frame starts, and both passes of
\* every frame drawn saw one and the same buffer size and resolution.
C6_FrameSeesOneResolution ==
    /\ "postMaterial" \in three.nonNull => three.targetSize = three.uResolution
    /\ \A i \in DOMAIN hist.frameLog :
          /\ hist.frameLog[i].bufferSize = hist.frameLog[i].uResolution
          /\ hist.frameLog[i].bufferSize = hist.frameLog[1].bufferSize

\* a frame drawn after a resize to 2 x 1 made under another device pixel
\* ratio than initialize saw: both passes ran at the resolution of that resize
C6_Witness ==
    /\ hist.lastCall.op = "render"
    /\ three.aspect = Aspect(2, 1)
    /\ three.targetSize # <<2 * hist.dprAtInit, hist.dprAtInit>>
    /\ Len(hist.frameLog) = 2
    /\ hist.frameLog[1].bufferSize = three.targetSize
    /\ hist.frameLog[2].uResolution = three.uResolution

\* C7: in every frame in which render() draws, the scene pass into the
\* intermediate buffer comes first and the composite pass to the screen
\* second, each exactly once.
C7_SceneThenComposite ==
    hist.frameLog # <<>> =>
        /\ Len(hist.frameLog) = 2
        /\ hist.frameLog[1].scene = "scene"
        /\ hist.frameLog[1].target = "renderTarget"
        /\ hist.frameLog[2].scene = "postScene"
        /\ hist.frameLog[2].target = "screen"

\* the frame callback has drawn a frame after a resize
C7_Witness ==
    /\ page.renderCalled
    /\ hist.lastCall.op = "render"
    /\ three.aspect = Aspect(1, 2)
    /\ Len(hist.frameLog) = 2

\* C8: in each entry point, a failed initialization shows a fallback, schedules
\* no frame callback and calls render() never.
C8_FailedInitShowsFallback ==
    page.initFailed =>
        /\ page.fallbackShown
        /\ ~page.rafScheduled
        /\ ~page.renderCalled

\* C9: after resize(w, h) with w <= 0 or h <= 0 the scene buffer and the
\* resolution parameter have no zero or negative dimension and the camera
\* aspect is a finite positive number.
C9_DegenerateResizeClamped ==
    (hist.lastCall.op = "resize" /\ (hist.lastCall.w <= 0 \/ hist.lastCall.h <= 0)) =>
        /\ three.targetSize[1] >= 1 /\ three.targetSize[2] >= 1
        /\ three.uResolution[1] >= 1 /\ three.uResolution[2] >= 1
        /\ three.aspect.kind = "finite"
        /\ three.aspect.num * three.aspect.den > 0

\* C10: resize leaves uFontSize and uCharCount alone: after any resize and
\* render calls uFontSize is 10 times the device pixel ratio initialize saw,
\* and uCharCount the length of the ramp.
C10_FontSizeKept ==
    "postMaterial" \in three.nonNull =>
        /\ three.uFontSize = FontSizeBase * hist.dprAtInit
        /\ three.uCharCount = Len(CHAR_SET)

\* a resize made under another device pixel ratio than initialize saw
C10_Witness ==
    /\ hist.lastCall.op = "resize"
    /\ hist.lastCall.dpr # hist.dprAtInit
    /\ hist.lastCall.w > 0 /\ hist.lastCall.h > 0

(***************************************************************************)
(* Properties of the renderer's life cycle (LifecycleSpec).                *)
(***************************************************************************)
\* C11: after destroy(), every GPU resource initialize() acquired has been
\* released and every listener it registered has been removed: the count of
\* live resources and of listeners is zero, after any number of cycles.
C11_DestroyReleasesAll ==
    hist.lastCall.op = "destroy" =>
        /\ \A k \in ResourceKinds : three.live[k] = 0
        /\ three.listeners = {}

(***************************************************************************)
(* Properties of the font atlas coordinate (AtlasSpec).                    *)
(***************************************************************************)
\* C12: for every uv in [0,1) x [0,1), every positive gridDims and every
\* scene sample, fontU lies in the half-open slot
\* [charIndex / N, (charIndex + 1) / N) of the selected glyph and in [0,1),
\* and fontV lies in [0,1).
C12_FontCoordInSlot ==
    frag.done =>
        /\ frag.out.charIndex * One <= frag.out.fontSum
        /\ frag.out.fontSum < (frag.out.charIndex + 1) * One
        /\ 0 <= frag.out.fontSum
        /\ frag.out.fontSum < frag.in.uCharCount * One
        /\ 0 <= frag.out.fontV
        /\ frag.out.fontV < One

====
